---------------------------- MODULE Spec2Model ----------------------------
(***************************************************************************)
(* Model of ape_polygon_zkevm/ecosystem.py: PolygonZkEVM.create_transaction *)
(* with its helpers _get_transaction_type and _get_transaction_cls.        *)
(*                                                                         *)
(* A Python value is a record [t, n, s, b, c]:                             *)
(*   t  the kind: "absent" (key not in kwargs), "none", "int", "str",      *)
(*      "bytes", "hexbytes" (a bytes subclass) or "sig"                    *)
(*      (a TransactionSignature);                                          *)
(*   n  the integer of an int (v of a signature);                          *)
(*   s  the characters of a str, one one-character string each;            *)
(*   b  the bytes of a bytes value (r of a signature);                     *)
(*   c  s of a signature.                                                  *)
(***************************************************************************)
EXTENDS Integers, Sequences, FiniteSets, TLC

VARIABLES
    active_provider,   \* network_manager.active_provider: [active, required_confirmations]
    pc,                \* position inside create_transaction
    call_kwargs,       \* the keyword arguments as the caller passed them
    kwargs,            \* the mutable kwargs mapping of the running call
    local_type,        \* _type, the local of _get_transaction_type
    transaction_type,  \* the resolved TransactionType member ("" before)
    txn_class,         \* the class _get_transaction_cls returned ("" before)
    error,             \* the exception that left create_transaction
    result             \* what txn_class.parse_obj(kwargs) was handed: [cls, obj]

vars == <<active_provider, pc, call_kwargs, kwargs, local_type, transaction_type,
          txn_class, error, result>>

---------------------------------------------------------------------------
(* Bounds *)

\* caller and provider confirmation counts range over 0..MaxConf
MaxConf == 1
\* integer and single-byte type inputs range over 0..MaxTypeInt
MaxTypeInt == 15

---------------------------------------------------------------------------
(* Python values *)

Absent == [t |-> "absent", n |-> 0, s |-> <<>>, b |-> <<>>, c |-> <<>>]
None == [t |-> "none", n |-> 0, s |-> <<>>, b |-> <<>>, c |-> <<>>]
IntV(i) == [t |-> "int", n |-> i, s |-> <<>>, b |-> <<>>, c |-> <<>>]
StrV(str) == [t |-> "str", n |-> 0, s |-> str, b |-> <<>>, c |-> <<>>]
BytesV(bs) == [t |-> "bytes", n |-> 0, s |-> <<>>, b |-> bs, c |-> <<>>]
HexBytesV(bs) == [t |-> "hexbytes", n |-> 0, s |-> <<>>, b |-> bs, c |-> <<>>]

\* TransactionSignature(v=..., r=..., s=...)
TransactionSignature(v, r, s) == [t |-> "sig", n |-> v, s |-> <<>>, b |-> r, c |-> s]

Keys == {"type", "required_confirmations", "chainId", "hash", "data",
         "v", "r", "s", "signature"}

EmptyKwargs == [k \in Keys |-> Absent]

\* `key in kwargs`
In(kw, key) == kw[key].t # "absent"

\* kwargs.get(key): None when the key is missing
Get(kw, key) == IF In(kw, key) THEN kw[key] ELSE None

Digits == <<"0", "1", "2", "3", "4", "5", "6", "7", "8", "9">>
HexDigits == Digits \o <<"a", "b", "c", "d", "e", "f">>
UpperHexDigits == Digits \o <<"A", "B", "C", "D", "E", "F">>

\* str(n) for n >= 0: decimal digits
RECURSIVE Dec(_)
Dec(n) == IF n < Len(Digits) THEN <<Digits[n + 1]>>
          ELSE Dec(n \div Len(Digits)) \o <<Digits[(n % Len(Digits)) + 1]>>

\* bytes.hex(): two lower-case hex digits per byte
RECURSIVE Hex(_)
Hex(bs) == IF bs = <<>> THEN <<>>
           ELSE <<HexDigits[(bs[1] \div Len(HexDigits)) + 1],
                  HexDigits[(bs[1] % Len(HexDigits)) + 1]>> \o Hex(Tail(bs))

\* str.replace("0x", ""): every non-overlapping occurrence, left to right
RECURSIVE Remove0x(_)
Remove0x(str) ==
    IF Len(str) < 2 THEN str
    ELSE IF str[1] = "0" /\ str[2] = "x" THEN Remove0x(SubSeq(str, 3, Len(str)))
    ELSE <<str[1]>> \o Remove0x(Tail(str))

\* str.rstrip(ch) for a one-character ch
RECURSIVE RStrip(_, _)
RStrip(str, ch) ==
    IF str # <<>> /\ str[Len(str)] = ch THEN RStrip(SubSeq(str, 1, Len(str) - 1), ch)
    ELSE str

\* eth_utils.is_0x_prefixed / add_0x_prefix
Is0xPrefixed(str) == Len(str) >= 2 /\ str[1] = "0" /\ str[2] \in {"x", "X"}
add_0x_prefix(str) == IF Is0xPrefixed(str) THEN str ELSE <<"0", "x">> \o str

\* bool(value) taken for `value is not None`
Truthy_notnone(v) == v.t \notin {"absent", "none"}

\* bool(value)
Truthy(v) ==
    CASE v.t \in {"absent", "none"} -> FALSE
      [] v.t = "int" -> v.n # 0
      [] v.t = "str" -> v.s # <<>>
      [] v.t \in {"bytes", "hexbytes"} -> v.b # <<>>
      [] OTHER -> TRUE

---------------------------------------------------------------------------
(* ape_ethereum.transactions.TransactionType, StaticFeeTransaction *)

TransactionTypeValue ==
    [STATIC |-> <<"0", "x", "0", "0">>,
     ACCESS_LIST |-> <<"0", "x", "0", "1">>,
     DYNAMIC |-> <<"0", "x", "0", "2">>]

TransactionType == DOMAIN TransactionTypeValue

NoError == [kind |-> "", at |-> "", msg |-> <<>>]
Raise(kind, at, msg) == [kind |-> kind, at |-> at, msg |-> msg]

NoResult == [cls |-> "", obj |-> EmptyKwargs]


---------------------------------------------------------------------------
(* _get_transaction_type, lines 94-109 *)

\* lines 98-103: the value as a string. The `is None` branch cannot be
\* taken, None having returned at line 96; a str is left as it is.
ConvertType(v) ==
    CASE v.t = "none" -> StrV(TransactionTypeValue.STATIC)
      [] v.t = "int" -> StrV(<<"0">> \o Dec(v.n))
      [] v.t \in {"bytes", "hexbytes"} -> StrV(Hex(v.b))
      [] OTHER -> v

\* lines 105-107: a one-character suffix is left-padded with "0"
PadType(str) ==
    LET suffix == Remove0x(str)
    IN  IF Len(suffix) = 1 THEN RStrip(str, suffix[1]) \o <<"0">> \o suffix
        ELSE str

\* a lookup that falls back to STATIC for a value no member has
LookupType_fallback(str) ==
    LET value == add_0x_prefix(str)
        members == {m \in TransactionType : TransactionTypeValue[m] = value}
    IN  [ok |-> TRUE,
         tag |-> IF members # {} THEN CHOOSE m \in members : TRUE ELSE "STATIC",
         err |-> NoError]

\* line 109: TransactionType(add_0x_prefix(HexStr(_type))), the enumeration's
\* lookup by value, which raises ValueError for a value no member has
LookupType(str) ==
    LET value == add_0x_prefix(str)
        members == {m \in TransactionType : TransactionTypeValue[m] = value}
    IN  IF members # {}
        THEN [ok |-> TRUE, tag |-> CHOOSE m \in members : TRUE, err |-> NoError]
        ELSE [ok |-> FALSE, tag |-> "",
              err |-> Raise("ValueError", "_get_transaction_type", value)]

\* the string handed to the enumeration lookup for a truthy input
NormalizedType(v) == add_0x_prefix(PadType(ConvertType(v).s))

\* the whole function
get_transaction_type(v) ==
    IF ~Truthy(v) THEN [ok |-> TRUE, tag |-> "STATIC", err |-> NoError]
    ELSE LookupType(PadType(ConvertType(v).s))

---------------------------------------------------------------------------
(* _get_transaction_cls, lines 112-119 *)

transaction_types == [STATIC |-> "StaticFeeTransaction"]

\* transaction_types.get(tag, StaticFeeTransaction): no tag is rejected
get_transaction_cls_default(tag) ==
    [ok |-> TRUE, cls |-> "StaticFeeTransaction", err |-> NoError]

get_transaction_cls(tag) ==
    IF tag \notin DOMAIN transaction_types
    THEN [ok |-> FALSE, cls |-> "",
          err |-> Raise("ApePolygonZkEVMError", "_get_transaction_cls",
                        <<"Transaction type '", tag, "' not supported.">>)]
    ELSE [ok |-> TRUE, cls |-> transaction_types[tag], err |-> NoError]

---------------------------------------------------------------------------
(* create_transaction, lines 65-91: the field rewrites *)

\* line 66 left out: the caller's spelling stays in the mapping
SetType_keep(kw, tag) == kw

\* line 66
SetType(kw, tag) == [kw EXCEPT !["type"] = StrV(TransactionTypeValue[tag])]

\* `if not kwargs.get("required_confirmations")`: a supplied 0 counts as missing
DefaultConfirmations_falsy(kw, provider) ==
    IF ~In(kw, "required_confirmations") \/ ~Truthy(kw["required_confirmations"])
    THEN [kw EXCEPT !["required_confirmations"] =
             IF provider.active THEN IntV(provider.required_confirmations)
             ELSE IntV(0)]
    ELSE kw

\* the connection's count always wins over the caller's
DefaultConfirmations_always(kw, provider) ==
    IF provider.active \/ ~In(kw, "required_confirmations")
       \/ kw["required_confirmations"].t = "none"
    THEN [kw EXCEPT !["required_confirmations"] =
             IF provider.active THEN IntV(provider.required_confirmations)
             ELSE IntV(0)]
    ELSE kw

\* lines 69-76
DefaultConfirmations(kw, provider) ==
    IF ~In(kw, "required_confirmations") \/ kw["required_confirmations"].t = "none"
    THEN [kw EXCEPT !["required_confirmations"] =
             IF provider.active THEN IntV(provider.required_confirmations)
             ELSE IntV(0)]
    ELSE kw

\* the value of one hex digit, -1 for any other character
HexDigitValue(ch) ==
    IF \E i \in DOMAIN HexDigits : HexDigits[i] = ch
    THEN (CHOOSE i \in DOMAIN HexDigits : HexDigits[i] = ch) - 1
    ELSE IF \E i \in DOMAIN UpperHexDigits : UpperHexDigits[i] = ch
    THEN (CHOOSE i \in DOMAIN UpperHexDigits : UpperHexDigits[i] = ch) - 1
    ELSE -1

RECURSIVE HexNumber(_)
HexNumber(str) ==
    IF str = <<>> THEN 0
    ELSE HexNumber(SubSeq(str, 1, Len(str) - 1)) * Len(HexDigits)
         + HexDigitValue(str[Len(str)])

\* int(str): base 10, no prefix
ParseInt10(str) ==
    IF str # <<>> /\ \A i \in DOMAIN str : \E d \in DOMAIN Digits : Digits[d] = str[i]
    THEN [ok |-> TRUE, n |-> HexNumber(str)]
    ELSE [ok |-> FALSE, n |-> 0]

\* int(str, 16): an optional 0x/0X prefix, then one hex digit or more
\* (signs, blanks and underscores, which int() also reads, are not modelled)
ParseInt16(str) ==
    LET body == IF Is0xPrefixed(str) THEN SubSeq(str, 3, Len(str)) ELSE str
    IN  IF body # <<>> /\ \A i \in DOMAIN body : HexDigitValue(body[i]) >= 0
        THEN [ok |-> TRUE, n |-> HexNumber(body)]
        ELSE [ok |-> FALSE, n |-> 0]

\* lines 78-79
CoerceChainId(kw) ==
    IF Get(kw, "chainId").t = "str"
    THEN LET parsed == ParseInt16(kw["chainId"].s)
         IN  IF parsed.ok
             THEN [ok |-> TRUE, kw |-> [kw EXCEPT !["chainId"] = IntV(parsed.n)],
                   err |-> NoError]
             ELSE [ok |-> FALSE, kw |-> kw,
                   err |-> Raise("ValueError", "create_transaction", kw["chainId"].s)]
    ELSE [ok |-> TRUE, kw |-> kw, err |-> NoError]

\* kwargs.setdefault("data", kwargs.pop("hash")): supplied data is kept
RenameHash_keepdata(kw) ==
    IF In(kw, "hash")
    THEN [kw EXCEPT !["data"] = IF In(kw, "data") THEN kw["data"] ELSE kw["hash"],
                    !["hash"] = Absent]
    ELSE kw

\* lines 81-82
RenameHash(kw) ==
    IF In(kw, "hash")
    THEN [kw EXCEPT !["data"] = kw["hash"], !["hash"] = Absent]
    ELSE kw

\* bytes(value): the bytes of a bytes-like value, value zero bytes for an
\* int >= 0, TypeError for a str or None
ToBytes(v) ==
    CASE v.t \in {"bytes", "hexbytes"} -> [ok |-> TRUE, b |-> v.b]
      [] v.t = "int" /\ v.n >= 0 -> [ok |-> TRUE, b |-> [i \in 1..v.n |-> 0]]
      [] OTHER -> [ok |-> FALSE, b |-> <<>>]

\* only r and s are looked for; a missing v is read as 0
AssembleSignature_rs(kw) ==
    IF \A field \in {"r", "s"} : In(kw, field)
    THEN LET r == ToBytes(kw["r"])
             s == ToBytes(kw["s"])
         IN  IF r.ok /\ s.ok
             THEN [ok |-> TRUE,
                   kw |-> [kw EXCEPT !["signature"] =
                              TransactionSignature(kw["v"].n, r.b, s.b)],
                   err |-> NoError]
             ELSE [ok |-> FALSE, kw |-> kw,
                   err |-> Raise("TypeError", "create_transaction", <<>>)]
    ELSE [ok |-> TRUE, kw |-> kw, err |-> NoError]

\* lines 84-89
AssembleSignature(kw) ==
    IF \A field \in {"v", "r", "s"} : In(kw, field)
    THEN LET r == ToBytes(kw["r"])
             s == ToBytes(kw["s"])
         IN  IF r.ok /\ s.ok
             THEN [ok |-> TRUE,
                   kw |-> [kw EXCEPT !["signature"] =
                              TransactionSignature(kw["v"].n, r.b, s.b)],
                   err |-> NoError]
             ELSE [ok |-> FALSE, kw |-> kw,
                   err |-> Raise("TypeError", "create_transaction", <<>>)]
    ELSE [ok |-> TRUE, kw |-> kw, err |-> NoError]

\* lines 65-91 as one function of the arguments and the ambient connection:
\* the exception raised, or the class and the mapping handed to parse_obj
create_transaction(kw, provider) ==
    LET resolved == get_transaction_type(Get(kw, "type"))
    IN  IF ~resolved.ok THEN [failed |-> TRUE, err |-> resolved.err, res |-> NoResult]
        ELSE
    LET typed == SetType(kw, resolved.tag)
        cls == get_transaction_cls(resolved.tag)
    IN  IF ~cls.ok THEN [failed |-> TRUE, err |-> cls.err, res |-> NoResult]
        ELSE
    LET chain == CoerceChainId(DefaultConfirmations(typed, provider))
    IN  IF ~chain.ok THEN [failed |-> TRUE, err |-> chain.err, res |-> NoResult]
        ELSE
    LET signed == AssembleSignature(RenameHash(chain.kw))
    IN  IF ~signed.ok THEN [failed |-> TRUE, err |-> signed.err, res |-> NoResult]
        ELSE [failed |-> FALSE, err |-> NoError,
              res |-> [cls |-> cls.cls, obj |-> signed.kw]]

---------------------------------------------------------------------------
(* The keyword arguments callers pass *)

\* one-digit spellings "d" and "0xd", two-digit spellings "0d" and "0x0d"
TypeStrings ==
    UNION {{StrV(<<HexDigits[i]>>), StrV(<<"0", "x", HexDigits[i]>>),
            StrV(<<"0", HexDigits[i]>>), StrV(<<"0", "x", "0", HexDigits[i]>>)}
           : i \in DOMAIN HexDigits}

\* every type input: missing, None, int, bytes and str, falsy ones included
TypeInputs ==
    {Absent, None, StrV(<<>>), BytesV(<<>>)}
    \cup {IntV(i) : i \in 0..MaxTypeInt}
    \cup {BytesV(<<i>>) : i \in 0..MaxTypeInt}
    \cup TypeStrings
    \cup {StrV(<<"0", "X", "0">>), StrV(<<"1", "0", "x">>),
          StrV(<<"0", "x", "0", "x", "0">>)}

\* the type inputs that are combined with every choice of the other fields
CoreTypeInputs == {Absent, IntV(0), StrV(<<"0", "x", "0">>), IntV(1)}

ConfirmationInputs == {Absent, None} \cup {IntV(i) : i \in 0..MaxConf}

\* chainId 69 as an int and as "0x45", and a string that is not base 16
ChainIdInputs == {Absent, IntV(69), StrV(<<"0", "x", "4", "5">>), StrV(<<"z", "z">>)}

HashInputs == {Absent, StrV(<<"0", "x", "d", "e">>)}
DataInputs == {Absent, StrV(<<"0", "x", "a", "b">>)}
VInputs == {Absent, IntV(27)}
RInputs == {Absent, HexBytesV(<<1, 2>>), IntV(2), StrV(<<"0", "x", "1">>)}
SInputs == {Absent, BytesV(<<3>>), StrV(<<"0", "x", "3">>)}
SignatureInputs == {Absent, TransactionSignature(28, <<7>>, <<8>>)}

Kwargs(type, confirmations, chainId, hash, data, v, r, s, signature) ==
    [k \in Keys |->
        CASE k = "type" -> type
          [] k = "required_confirmations" -> confirmations
          [] k = "chainId" -> chainId
          [] k = "hash" -> hash
          [] k = "data" -> data
          [] k = "v" -> v
          [] k = "r" -> r
          [] k = "s" -> s
          [] k = "signature" -> signature]

KwargsInputs ==
    {[EmptyKwargs EXCEPT !["type"] = type] : type \in TypeInputs}
    \cup {Kwargs(type, confirmations, chainId, hash, data, v, r, s, signature) :
            type \in CoreTypeInputs, confirmations \in ConfirmationInputs,
            chainId \in ChainIdInputs, hash \in HashInputs, data \in DataInputs,
            v \in VInputs, r \in RInputs, s \in SInputs,
            signature \in SignatureInputs}

NoProvider == [active |-> FALSE, required_confirmations |-> 0]
Provider(n) == [active |-> TRUE, required_confirmations |-> n]
Providers == {NoProvider} \cup {Provider(n) : n \in 0..MaxConf}

---------------------------------------------------------------------------
(* The state machine *)

Idle ==
    /\ pc = "idle"
    /\ call_kwargs = EmptyKwargs
    /\ kwargs = EmptyKwargs
    /\ local_type = None
    /\ transaction_type = ""
    /\ txn_class = ""
    /\ error = NoError
    /\ result = NoResult

\* no connection is active until one is made
Init ==
    /\ active_provider = NoProvider
    /\ Idle

\* a network connection is made or dropped between calls
Connect ==
    /\ pc = "idle"
    /\ \E n \in 0..MaxConf : active_provider' = Provider(n)
    /\ UNCHANGED <<pc, call_kwargs, kwargs, local_type, transaction_type,
                   txn_class, error, result>>

Disconnect ==
    /\ pc = "idle"
    /\ active_provider.active
    /\ active_provider' = NoProvider
    /\ UNCHANGED <<pc, call_kwargs, kwargs, local_type, transaction_type,
                   txn_class, error, result>>

\* create_transaction(**kwargs) is entered; line 65 calls _get_transaction_type
Call ==
    /\ pc = "idle"
    /\ \E kw \in KwargsInputs :
        /\ call_kwargs' = kw
        /\ kwargs' = kw
        /\ local_type' = Get(kw, "type")
    /\ pc' = "gtt_entry"
    /\ UNCHANGED <<active_provider, transaction_type, txn_class, error, result>>

\* lines 95-96
TypeEntry ==
    /\ pc = "gtt_entry"
    /\ IF ~Truthy(local_type)
       THEN transaction_type' = "STATIC" /\ pc' = "set_type"
       ELSE transaction_type' = transaction_type /\ pc' = "gtt_convert"
    /\ UNCHANGED <<active_provider, call_kwargs, kwargs, local_type, txn_class,
                   error, result>>

\* lines 98-103
TypeConvert ==
    /\ pc = "gtt_convert"
    /\ local_type' = ConvertType(local_type)
    /\ pc' = "gtt_pad"
    /\ UNCHANGED <<active_provider, call_kwargs, kwargs, transaction_type,
                   txn_class, error, result>>

\* lines 105-107
TypePad ==
    /\ pc = "gtt_pad"
    /\ local_type' = StrV(PadType(local_type.s))
    /\ pc' = "gtt_lookup"
    /\ UNCHANGED <<active_provider, call_kwargs, kwargs, transaction_type,
                   txn_class, error, result>>

\* line 109
TypeLookup ==
    /\ pc = "gtt_lookup"
    /\ LET found == LookupType(local_type.s)
       IN  IF found.ok
           THEN transaction_type' = found.tag /\ pc' = "set_type" /\ error' = error
           ELSE transaction_type' = transaction_type /\ pc' = "failed"
                /\ error' = found.err
    /\ UNCHANGED <<active_provider, call_kwargs, kwargs, local_type, txn_class,
                   result>>

\* line 66
AssignType ==
    /\ pc = "set_type"
    /\ kwargs' = SetType(kwargs, transaction_type)
    /\ pc' = "get_cls"
    /\ UNCHANGED <<active_provider, call_kwargs, local_type, transaction_type,
                   txn_class, error, result>>

\* line 67
SelectClass ==
    /\ pc = "get_cls"
    /\ LET got == get_transaction_cls(transaction_type)
       IN  IF got.ok
           THEN txn_class' = got.cls /\ pc' = "confirmations" /\ error' = error
           ELSE txn_class' = txn_class /\ pc' = "failed" /\ error' = got.err
    /\ UNCHANGED <<active_provider, call_kwargs, kwargs, local_type,
                   transaction_type, result>>

\* lines 69-76
Confirmations ==
    /\ pc = "confirmations"
    /\ kwargs' = DefaultConfirmations(kwargs, active_provider)
    /\ pc' = "chainId"
    /\ UNCHANGED <<active_provider, call_kwargs, local_type, transaction_type,
                   txn_class, error, result>>

\* lines 78-79
ChainId ==
    /\ pc = "chainId"
    /\ LET got == CoerceChainId(kwargs)
       IN  IF got.ok
           THEN kwargs' = got.kw /\ pc' = "hash" /\ error' = error
           ELSE kwargs' = kwargs /\ pc' = "failed" /\ error' = got.err
    /\ UNCHANGED <<active_provider, call_kwargs, local_type, transaction_type,
                   txn_class, result>>

\* lines 81-82
Hash ==
    /\ pc = "hash"
    /\ kwargs' = RenameHash(kwargs)
    /\ pc' = "signature"
    /\ UNCHANGED <<active_provider, call_kwargs, local_type, transaction_type,
                   txn_class, error, result>>

\* lines 84-89
Signature ==
    /\ pc = "signature"
    /\ LET got == AssembleSignature(kwargs)
       IN  IF got.ok
           THEN kwargs' = got.kw /\ pc' = "parse_obj" /\ error' = error
           ELSE kwargs' = kwargs /\ pc' = "failed" /\ error' = got.err
    /\ UNCHANGED <<active_provider, call_kwargs, local_type, transaction_type,
                   txn_class, result>>

\* line 91: the class is handed the rewritten mapping
ParseObj ==
    /\ pc = "parse_obj"
    /\ result' = [cls |-> txn_class, obj |-> kwargs]
    /\ pc' = "done"
    /\ UNCHANGED <<active_provider, call_kwargs, kwargs, local_type,
                   transaction_type, txn_class, error>>

\* the caller has the transaction or the exception; the frame is gone
Return ==
    /\ pc \in {"done", "failed"}
    /\ pc' = "idle"
    /\ call_kwargs' = EmptyKwargs
    /\ kwargs' = EmptyKwargs
    /\ local_type' = None
    /\ transaction_type' = ""
    /\ txn_class' = ""
    /\ error' = NoError
    /\ result' = NoResult
    /\ UNCHANGED active_provider

Next ==
    \/ Connect
    \/ Disconnect
    \/ Call
    \/ TypeEntry
    \/ TypeConvert
    \/ TypePad
    \/ TypeLookup
    \/ AssignType
    \/ SelectClass
    \/ Confirmations
    \/ ChainId
    \/ Hash
    \/ Signature
    \/ ParseObj
    \/ Return

Spec == Init /\ [][Next]_vars

---------------------------------------------------------------------------
(* Properties *)

CallType == Get(call_kwargs, "type")
StaticValue == StrV(<<"0", "x", "0", "0">>)

\* the call has left _get_transaction_type
TypeResolved == pc \notin {"idle", "gtt_entry", "gtt_convert", "gtt_pad", "gtt_lookup"}

\* C1: every transaction create_transaction returns is of the static-fee
\* class, and the type field handed to construction is the value of the
\* STATIC tag, whatever the caller wrote and whatever the connection is.
C1_ReturnedTransactionIsStatic ==
    pc = "done" =>
        /\ result.cls = "StaticFeeTransaction"
        /\ result.obj["type"] = StaticValue

\* a transaction was returned for a type the caller spelled "0x0"
C1_Witness ==
    /\ pc = "done"
    /\ call_kwargs["type"] = StrV(<<"0", "x", "0">>)
    /\ active_provider.active

\* C2: class selection gives STATIC the static-fee class and raises the
\* plugin's error, its message carrying the tag, for every other tag; no
\* class is ever returned for a tag other than STATIC.
C2_ClassSelection ==
    /\ txn_class # "" =>
          transaction_type = "STATIC" /\ txn_class = "StaticFeeTransaction"
    /\ (transaction_type = "STATIC" /\ pc \notin {"set_type", "get_cls"}) =>
          txn_class = "StaticFeeTransaction" /\ error.kind # "ApePolygonZkEVMError"
    /\ (transaction_type \in {"ACCESS_LIST", "DYNAMIC"}
          /\ pc \notin {"set_type", "get_cls"}) =>
          /\ pc = "failed"
          /\ txn_class = ""
          /\ error.kind = "ApePolygonZkEVMError"
          /\ error.at = "_get_transaction_cls"
          /\ error.msg = <<"Transaction type '", transaction_type, "' not supported.">>

\* class selection rejected the dynamic-fee tag
C2_Witness ==
    /\ pc = "failed"
    /\ transaction_type = "DYNAMIC"
    /\ error.kind = "ApePolygonZkEVMError"

\* the values of the enumeration's members
KnownValues == {TransactionTypeValue[m] : m \in TransactionType}

\* C3 as stated: type resolution never fails, and a type input whose normalized
\* string matches no known tag is rejected at class selection, with the
\* unsupported-transaction-type error.
C3_ResolutionNeverFails ==
    /\ error.at # "_get_transaction_type"
    /\ (pc = "failed" /\ Truthy(CallType) /\ NormalizedType(CallType) \notin KnownValues) =>
          error.kind = "ApePolygonZkEVMError" /\ error.at = "_get_transaction_cls"

\* C3 amended: a truthy type input whose normalized string matches no known
\* tag fails inside type resolution, at the enumeration lookup, with a
\* ValueError carrying that string, and class selection is never reached; every
\* other input resolves to the tag of its normalized string (STATIC when
\* falsy), and the unsupported-transaction-type error is raised only for a
\* known tag other than STATIC.
C3_UnknownTypeFailsInResolution ==
    /\ TypeResolved =>
          IF Truthy(CallType) /\ NormalizedType(CallType) \notin KnownValues
          THEN /\ pc = "failed"
               /\ error = Raise("ValueError", "_get_transaction_type",
                                NormalizedType(CallType))
               /\ transaction_type = ""
               /\ txn_class = ""
               /\ result = NoResult
          ELSE /\ error.at # "_get_transaction_type"
               /\ transaction_type \in TransactionType
               /\ Truthy(CallType) =>
                     TransactionTypeValue[transaction_type] = NormalizedType(CallType)
               /\ ~Truthy(CallType) => transaction_type = "STATIC"
    /\ error.kind = "ApePolygonZkEVMError" =>
          transaction_type \in TransactionType \ {"STATIC"}

\* the integer 3, normalized to "0x03", was rejected by the lookup
C3_Witness ==
    /\ pc = "failed"
    /\ call_kwargs["type"] = IntV(3)
    /\ error.kind = "ValueError"
    /\ error.at = "_get_transaction_type"
    /\ error.msg = <<"0", "x", "0", "3">>

\* the spellings of the one-byte tag n, for a nibble n
Spellings(n) ==
    {IntV(n), StrV(<<HexDigits[n + 1]>>), StrV(<<"0", "x", HexDigits[n + 1]>>),
     BytesV(<<n>>)}

Nibbles == {i - 1 : i \in DOMAIN HexDigits}

\* C4: for every n in 0..15 the integer n, the one-digit string, the
\* "0x"-prefixed digit and the single byte n reach the enumeration lookup as
\* "0x" followed by the two-digit hex of n, and the spellings of 0 resolve to
\* STATIC.
C4_SpellingsNormalizeAlike ==
    \A n \in Nibbles :
        CallType \in Spellings(n) =>
            /\ pc = "gtt_lookup" =>
                  add_0x_prefix(local_type.s) = <<"0", "x", "0", HexDigits[n + 1]>>
            /\ (n = 0 /\ TypeResolved) => transaction_type = "STATIC"

\* the type inputs Python takes for false
FalsyTypeInputs == {Absent, None, IntV(0), StrV(<<>>), BytesV(<<>>)}

\* C5: for a missing, None, 0, "" or b"" type input, type resolution returns
\* STATIC at once: conversion, padding and the enumeration lookup are never
\* entered and _type is never rewritten.
C5_FalsyTypeIsStaticAtOnce ==
    (pc # "idle" /\ CallType \in FalsyTypeInputs) =>
        /\ pc \notin {"gtt_convert", "gtt_pad", "gtt_lookup"}
        /\ local_type = CallType
        /\ pc # "gtt_entry" => transaction_type = "STATIC"
        /\ error.at # "_get_transaction_type"

\* resolution has returned for the integer 0
C5_Witness ==
    /\ pc = "set_type"
    /\ call_kwargs["type"] = IntV(0)
    /\ transaction_type = "STATIC"

\* the default the connection gives
ConnectionDefault ==
    IF active_provider.active THEN IntV(active_provider.required_confirmations)
    ELSE IntV(0)

\* C6: a missing or None required_confirmations is handed to construction as
\* the active connection's configured count, or 0 with no connection; a
\* supplied count, 0 included, is handed on as it is.
C6_ConfirmationDefaulting ==
    pc \in {"chainId", "hash", "signature", "parse_obj", "done"} =>
        LET supplied == call_kwargs["required_confirmations"]
            handed == IF pc = "done" THEN result.obj["required_confirmations"]
                      ELSE kwargs["required_confirmations"]
        IN  handed = IF supplied.t \in {"absent", "none"} THEN ConnectionDefault
                     ELSE supplied

\* a supplied 0 was handed on although the connection asks for more
C6_Witness ==
    /\ pc = "done"
    /\ call_kwargs["required_confirmations"] = IntV(0)
    /\ active_provider.active
    /\ active_provider.required_confirmations > 0
    /\ result.obj["required_confirmations"] = IntV(0)

\* C7: the mapping handed to construction never has a hash field; with hash
\* supplied its data is the hash value, over any data supplied; without hash
\* data is as supplied.
C7_HashRenamedToData ==
    pc \in {"signature", "parse_obj", "done"} =>
        LET handed == IF pc = "done" THEN result.obj ELSE kwargs
        IN  /\ ~In(handed, "hash")
            /\ handed["data"] = IF In(call_kwargs, "hash") THEN call_kwargs["hash"]
                                ELSE call_kwargs["data"]

\* hash replaced the data the caller also supplied
C7_Witness ==
    /\ pc = "done"
    /\ In(call_kwargs, "hash")
    /\ In(call_kwargs, "data")
    /\ call_kwargs["data"] # call_kwargs["hash"]
    /\ result.obj["data"] = call_kwargs["hash"]

AllOfVRS == \A field \in {"v", "r", "s"} : In(call_kwargs, field)

\* the call has left lines 84-89, by falling through or by their exception
SignatureStepLeft == pc \in {"parse_obj", "done"} \/ error.kind = "TypeError"

\* bytes(value) where it is defined
Convertible(v) == v.t \in {"bytes", "hexbytes", "int"}
AsBytes(v) == IF v.t = "int" THEN [i \in 1..v.n |-> 0] ELSE v.b

ExpectedSignature ==
    TransactionSignature(call_kwargs["v"].n, AsBytes(call_kwargs["r"]),
                         AsBytes(call_kwargs["s"]))

\* C8 as stated: the signature {v, bytes(r), bytes(s)} is written if and only
\* if v, r and s are all present, over any signature supplied; otherwise the
\* signature field is as supplied; v, r and s stay as they are.
C8_SignatureIffAllPresent ==
    SignatureStepLeft =>
        /\ kwargs["signature"] = IF AllOfVRS THEN ExpectedSignature
                                 ELSE call_kwargs["signature"]
        /\ \A field \in {"v", "r", "s"} : kwargs[field] = call_kwargs[field]

\* C8 amended: the signature {v, bytes(r), bytes(s)} is written if and only if
\* v, r and s are all present and bytes() takes r and s (bytes-like, or an int
\* n, which gives n zero bytes); with all three present and r or s a str,
\* create_transaction fails with a TypeError, nothing is constructed and the
\* signature field is as supplied; with one of the three missing the signature
\* field is as supplied; v, r and s stay as they are.
C8_SignatureAssembly ==
    SignatureStepLeft =>
        /\ \A field \in {"v", "r", "s"} : kwargs[field] = call_kwargs[field]
        /\ IF AllOfVRS /\ Convertible(call_kwargs["r"]) /\ Convertible(call_kwargs["s"])
           THEN kwargs["signature"] = ExpectedSignature /\ pc # "failed"
           ELSE kwargs["signature"] = call_kwargs["signature"]
        /\ (AllOfVRS /\ ~(Convertible(call_kwargs["r"]) /\ Convertible(call_kwargs["s"])))
              <=> (pc = "failed" /\ error = Raise("TypeError", "create_transaction", <<>>)
                   /\ result = NoResult)

\* a supplied signature was replaced by the one made of v, r and s
C8_Witness ==
    /\ pc = "done"
    /\ AllOfVRS
    /\ In(call_kwargs, "signature")
    /\ call_kwargs["r"].t = "hexbytes"
    /\ result.obj["signature"] = TransactionSignature(27, <<1, 2>>, <<3>>)

\* the call has left lines 78-79, by falling through or by their exception
ChainIdStepLeft ==
    \/ pc \in {"hash", "signature", "parse_obj", "done"}
    \/ pc = "failed" /\ txn_class # ""

\* C9: with a supported type, the string chainId "0x45" becomes the integer
\* 69; a chainId that is no string, or missing, stays as it is; a string that
\* is not base 16 fails the call with the ValueError of int(), and nothing is
\* constructed.
C9_ChainIdCoercion ==
    ChainIdStepLeft =>
        LET supplied == call_kwargs["chainId"]
        IN  CASE supplied = StrV(<<"0", "x", "4", "5">>) ->
                    kwargs["chainId"] = IntV(69) /\ error.kind # "ValueError"
              [] supplied = StrV(<<"z", "z">>) ->
                    /\ pc = "failed"
                    /\ error = Raise("ValueError", "create_transaction", <<"z", "z">>)
                    /\ result = NoResult
              [] OTHER ->
                    /\ supplied.t # "str"
                    /\ kwargs["chainId"] = supplied
                    /\ error.kind # "ValueError"

\* "0x45" was handed to construction as 69
C9_Witness ==
    /\ pc = "done"
    /\ call_kwargs["chainId"] = StrV(<<"0", "x", "4", "5">>)
    /\ result.obj["chainId"] = IntV(69)

\* C10: the outcome of a call depends on the connection only through a
\* defaulted required_confirmations: under every other state of the connection
\* the same arguments fail with the same kind of error, or succeed with the
\* same class and the same mapping but for required_confirmations, which
\* differs only when the caller left it missing or None.
C10_OutcomeIndependentOfConnection ==
    pc \in {"done", "failed"} =>
        \A provider \in Providers :
            LET other == create_transaction(call_kwargs, provider)
            IN  /\ other.failed <=> pc = "failed"
                /\ other.err.kind = error.kind
                /\ other.res.cls = result.cls
                /\ \A k \in Keys \ {"required_confirmations"} :
                      other.res.obj[k] = result.obj[k]
                /\ other.res.obj["required_confirmations"]
                      # result.obj["required_confirmations"] =>
                      call_kwargs["required_confirmations"].t \in {"absent", "none"}

\* a call whose result does differ with the connection: the count was defaulted
C10_Witness ==
    /\ pc = "done"
    /\ ~In(call_kwargs, "required_confirmations")
    /\ active_provider.active
    /\ result.obj["required_confirmations"]
          # create_transaction(call_kwargs, NoProvider).res.obj["required_confirmations"]

===========================================================================
